---- MODULE Spec2Model ----
(***************************************************************************)
(* Model of the RAG ingestion service: the Markdown splitters of           *)
(* src/api/services/ingestion.py and the upload / delete / read handlers   *)
(* of src/api/routers over the namespaced key-value store.                 *)
(*                                                                         *)
(* Text is modelled character by character: a string is a sequence of      *)
(* one-character strings, so "# a" is <<"#", " ", "a">>.                   *)
(***************************************************************************)
EXTENDS Integers, Sequences, FiniteSets, TLC

VARIABLES
    markdown_content,   \* splitter input: the Markdown text
    hierarchical,       \* splitter input: the split-mode flag
    chunks_data,        \* splitter output: the list of chunk records
    split_pc,           \* "input" before process_document ran, "done" after
    docs,               \* store namespace ("rag", "documents"): id -> metadata record
    chunks,             \* store namespaces ("rag", "chunks", id): id -> (key -> chunk record)
    req,                \* the request each worker is handling, with its position
    tasks,              \* store_chunk tasks started by asyncio.gather and not yet finished
    corpus,             \* what process_document yields: content -> chunk count per mode
    faults,             \* how many operations have raised so far
    served,             \* how many requests have been taken so far
    tmp_files,          \* the staged upload files on disk
    last,               \* the last handler call, when handlers run one at a time
    _store,             \* store.py: the module's store handle, None (0) before first use
    _store_cm,          \* store.py: the context manager the handle came from
    made,               \* how many context managers from_conn_string has built
    opened,             \* the store connections that have been opened
    set_up,             \* the store handles whose setup() has completed
    closed,             \* the connections close_store has closed
    calls,              \* the get_store call of each caller, with its position
    closing             \* the close_store call, with its position

split_vars == <<markdown_content, hierarchical, chunks_data, split_pc>>
store_vars == <<docs, chunks>>
handle_vars == <<_store, _store_cm, made, opened, set_up, closed, calls, closing>>
vars == <<markdown_content, hierarchical, chunks_data, split_pc,
          docs, chunks, req, tasks, corpus, faults, served, tmp_files, last,
          _store, _store_cm, made, opened, set_up, closed, calls, closing>>

(***************************************************************************)
(* Bounds of the splitter inputs.                                          *)
(***************************************************************************)
MaxLines == 3
MaxHeadingDepth == 2
ChunkSize == 10

\* int(settings.chunk_size * settings.chunk_overlap_ratio), ratio 0.1
ChunkOverlap == ChunkSize \div 10

(***************************************************************************)
(* String helpers (Python str methods used by the splitters).              *)
(***************************************************************************)
IsSpace(c) == c \in {" ", "\n"}

RECURSIVE LStrip(_)
LStrip(s) == IF s # <<>> /\ IsSpace(Head(s)) THEN LStrip(Tail(s)) ELSE s

RECURSIVE RStrip(_)
RStrip(s) ==
    IF s # <<>> /\ IsSpace(s[Len(s)]) THEN RStrip(SubSeq(s, 1, Len(s) - 1)) ELSE s

Strip(s) == RStrip(LStrip(s))

StartsWith(s, p) == Len(s) >= Len(p) /\ SubSeq(s, 1, Len(p)) = p

RECURSIVE Join(_, _)
Join(parts, sep) ==
    IF parts = <<>> THEN <<>>
    ELSE IF Len(parts) = 1 THEN parts[1]
    ELSE parts[1] \o sep \o Join(Tail(parts), sep)

RECURSIVE Concat(_)
Concat(parts) == IF parts = <<>> THEN <<>> ELSE Head(parts) \o Concat(Tail(parts))

\* text.split(sep) for a non-empty separator: the pieces between the
\* non-overlapping occurrences of sep, scanned left to right.
RECURSIVE SplitOn(_, _, _)
SplitOn(s, sep, cur) ==
    IF s = <<>> THEN <<cur>>
    ELSE IF StartsWith(s, sep)
         THEN <<cur>> \o SplitOn(SubSeq(s, Len(sep) + 1, Len(s)), sep, <<>>)
         ELSE SplitOn(Tail(s), sep, Append(cur, Head(s)))

Contains(s, sep) == \E i \in 1..Len(s) : StartsWith(SubSeq(s, i, Len(s)), sep)

RECURSIVE Hashes(_)
Hashes(k) == IF k = 0 THEN <<>> ELSE <<"#">> \o Hashes(k - 1)

SelectNonEmpty(parts) == SelectSeq(parts, LAMBDA x : x # <<>>)

(***************************************************************************)
(* MarkdownHeaderTextSplitter(headers_to_split_on).split_text, built in    *)
(* IngestionService.__init__ for the separators "#".."######" named        *)
(* Level_1..Level_6, with the library defaults (strip_headers, one         *)
(* document per run of lines with equal metadata).  Metadata is a function *)
(* from the set of levels that have a heading to the heading text.         *)
(***************************************************************************)
HeaderLevels == 1..6

\* The level of a heading line, 0 for any other line.  The library tries
\* the longest separator first and wants it followed by a space or by the
\* end of the line.
HeaderLevelOf(line) ==
    LET hits == {k \in HeaderLevels :
                    /\ StartsWith(line, Hashes(k))
                    /\ (Len(line) = k \/ line[k + 1] = " ")}
    IN IF hits = {} THEN 0 ELSE CHOOSE k \in hits : \A j \in hits : j <= k

\* A new heading that keeps the recorded headings of the deeper levels.
PushHeaderKeepDeeper(meta, k, data) ==
    [j \in DOMAIN meta \cup {k} |-> IF j = k THEN data ELSE meta[j]]

\* A new heading of level k drops every recorded heading of level >= k
\* (the header stack is popped) and records its own text.
PushHeader(meta, k, data) ==
    [j \in {i \in DOMAIN meta : i < k} \cup {k} |-> IF j = k THEN data ELSE meta[j]]

RECURSIVE MdLines(_, _, _, _)
MdLines(lines, content, meta, out) ==
    LET Flush == IF content = <<>> THEN out
                 ELSE Append(out, [content |-> Join(content, <<"\n">>), metadata |-> meta])
    IN IF lines = <<>> THEN Flush
       ELSE LET line == Strip(Head(lines))
                k == HeaderLevelOf(line)
            IN IF k > 0
               THEN MdLines(Tail(lines), <<>>,
                            PushHeader(meta, k, Strip(SubSeq(line, k + 1, Len(line)))),
                            Flush)
               ELSE IF line # <<>>
                    THEN MdLines(Tail(lines), Append(content, line), meta, out)
                    ELSE MdLines(Tail(lines), <<>>, meta, Flush)

\* aggregate_lines_to_chunks: consecutive entries with equal metadata are
\* merged, their contents joined by two spaces and a newline.
RECURSIVE AggregateLines(_, _)
AggregateLines(entries, out) ==
    IF entries = <<>> THEN out
    ELSE LET e == Head(entries)
             n == Len(out)
         IN IF n > 0 /\ out[n].metadata = e.metadata
            THEN AggregateLines(Tail(entries),
                    [out EXCEPT ![n].content = @ \o <<" ", " ", "\n">> \o e.content])
            ELSE AggregateLines(Tail(entries), Append(out, e))

MarkdownHeaderSplit(text) ==
    AggregateLines(MdLines(SplitOn(text, <<"\n">>, <<>>), <<>>, <<>>, <<>>), <<>>)

(***************************************************************************)
(* RecursiveCharacterTextSplitter(chunk_size, chunk_overlap).split_text    *)
(* with the library defaults: separators "\n\n", "\n", " ", "", the        *)
(* separator kept at the start of the piece that follows it, whitespace    *)
(* stripped from every chunk and empty chunks dropped.                     *)
(***************************************************************************)
Separators == << <<"\n", "\n">>, <<"\n">>, <<" ">>, <<>> >>

\* _split_text_with_regex(text, separator, keep_separator=True)
SplitKeep(text, sep) ==
    IF sep = <<>> THEN [i \in 1..Len(text) |-> <<text[i]>>]
    ELSE LET pieces == SplitOn(text, sep, <<>>)
         IN SelectNonEmpty(
              [i \in 1..Len(pieces) |-> IF i = 1 THEN pieces[1] ELSE sep \o pieces[i]])

\* _join_docs with the empty separator: <<>> stands for None.
JoinDocs(current_doc) == Strip(Concat(current_doc))

RECURSIVE SumLen(_)
SumLen(parts) == IF parts = <<>> THEN 0 ELSE Len(Head(parts)) + SumLen(Tail(parts))

\* The while loop of _merge_splits: drop pieces from the front of the
\* current document until what is left fits the overlap and the new piece.
RECURSIVE DropFront(_, _)
DropFront(cur, len) ==
    LET total == SumLen(cur)
    IN IF total > ChunkOverlap \/ (total + len > ChunkSize /\ total > 0)
       THEN DropFront(Tail(cur), len)
       ELSE cur

RECURSIVE MergeSplits(_, _, _)
MergeSplits(splits, cur, merged) ==
    LET Emit(c, ds) == IF JoinDocs(c) = <<>> THEN ds ELSE Append(ds, JoinDocs(c))
    IN IF splits = <<>> THEN Emit(cur, merged)
       ELSE LET d == Head(splits)
            IN IF SumLen(cur) + Len(d) > ChunkSize /\ cur # <<>>
               THEN MergeSplits(Tail(splits), Append(DropFront(cur, Len(d)), d),
                                Emit(cur, merged))
               ELSE MergeSplits(Tail(splits), Append(cur, d), merged)

\* The first separator that occurs in the text ("" always does).
RECURSIVE PickSeparator(_, _)
PickSeparator(text, i) ==
    IF i >= Len(Separators) \/ Contains(text, Separators[i]) THEN i
    ELSE PickSeparator(text, i + 1)

RECURSIVE SplitRec(_, _)
RECURSIVE SplitLoop(_, _, _, _)
SplitLoop(splits, from, good, final) ==
    IF splits = <<>>
    THEN IF good = <<>> THEN final ELSE final \o MergeSplits(good, <<>>, <<>>)
    ELSE LET s == Head(splits)
             merged == IF good = <<>> THEN final
                       ELSE final \o MergeSplits(good, <<>>, <<>>)
         IN IF Len(s) < ChunkSize
            THEN SplitLoop(Tail(splits), from, Append(good, s), final)
            ELSE IF from > Len(Separators)
                 THEN SplitLoop(Tail(splits), from, <<>>, Append(merged, s))
                 ELSE SplitLoop(Tail(splits), from, <<>>, merged \o SplitRec(s, from))

\* _split_text(text, separators[from..])
SplitRec(text, from) ==
    LET i == PickSeparator(text, from)
        next == IF Separators[i] = <<>> THEN Len(Separators) + 1 ELSE i + 1
    IN SplitLoop(SplitKeep(text, Separators[i]), next, <<>>, <<>>)

\* A splitter that answers a text without content with one empty chunk.
TextSplitKeepEmpty(text) ==
    IF SplitRec(text, 1) = <<>> THEN << <<>> >> ELSE SplitRec(text, 1)

TextSplit(text) == SplitRec(text, 1)

(***************************************************************************)
(* IngestionService.hierarchical_split and flat_split.                     *)
(***************************************************************************)
EmptyStr == <<>>

\* metadata.get(f"Level_{level}", "")
MetaGet(metadata, level) == IF level \in DOMAIN metadata THEN metadata[level] ELSE EmptyStr

PathSeparator == <<" ", ">", " ">>

\* The body of the inner loop of hierarchical_split: one chunk record.
MakeChunkWrongLevel(metadata, chunk_text, chunk_index) ==
    LET header_parts == SelectNonEmpty([i \in 1..6 |-> MetaGet(metadata, i)])
    IN [text |-> chunk_text,
        level1 |-> MetaGet(metadata, 1), level2 |-> MetaGet(metadata, 2),
        level3 |-> MetaGet(metadata, 3), level4 |-> MetaGet(metadata, 4),
        level5 |-> MetaGet(metadata, 5), level6 |-> MetaGet(metadata, 6),
        section_path |-> Join(header_parts, PathSeparator),
        section_level |-> Cardinality(DOMAIN metadata),
        chunk_index |-> chunk_index]

MakeChunk(metadata, chunk_text, chunk_index) ==
    LET header_parts == SelectNonEmpty([i \in 1..6 |-> MetaGet(metadata, i)])
    IN [text |-> chunk_text,
        level1 |-> MetaGet(metadata, 1), level2 |-> MetaGet(metadata, 2),
        level3 |-> MetaGet(metadata, 3), level4 |-> MetaGet(metadata, 4),
        level5 |-> MetaGet(metadata, 5), level6 |-> MetaGet(metadata, 6),
        section_path |-> Join(header_parts, PathSeparator),
        section_level |-> Len(header_parts),
        chunk_index |-> chunk_index]

\* The chunks of one section; global_chunk_index is the counter's value
\* when the section starts.
SectionChunksReset(metadata, text_chunks, global_chunk_index) ==
    [i \in 1..Len(text_chunks) |-> MakeChunk(metadata, text_chunks[i], i - 1)]

SectionChunks(metadata, text_chunks, global_chunk_index) ==
    [i \in 1..Len(text_chunks) |->
        MakeChunk(metadata, text_chunks[i], global_chunk_index + i - 1)]

RECURSIVE HierLoop(_, _, _)
HierLoop(header_splits, all_chunks, global_chunk_index) ==
    IF header_splits = <<>> THEN all_chunks
    ELSE LET doc == Head(header_splits)
             text_chunks == TextSplit(doc.content)
         IN HierLoop(Tail(header_splits),
                     all_chunks \o SectionChunks(doc.metadata, text_chunks, global_chunk_index),
                     global_chunk_index + Len(text_chunks))

hierarchical_split(markdown) == HierLoop(MarkdownHeaderSplit(markdown), <<>>, 0)

flat_split(markdown) ==
    LET text_chunks == TextSplit(markdown)
    IN [i \in 1..Len(text_chunks) |->
          [text |-> text_chunks[i],
           level1 |-> EmptyStr, level2 |-> EmptyStr, level3 |-> EmptyStr,
           level4 |-> EmptyStr, level5 |-> EmptyStr, level6 |-> EmptyStr,
           section_path |-> EmptyStr,
           section_level |-> 0,
           chunk_index |-> i - 1]]

\* process_document after the conversion to Markdown.
SplitDocument(markdown, hier) ==
    IF hier THEN hierarchical_split(markdown) ELSE flat_split(markdown)

(***************************************************************************)
(* The Markdown documents the splitters are run on: up to MaxLines lines,  *)
(* each a heading of depth 1..MaxHeadingDepth or a body line.              *)
(***************************************************************************)
Titles == { <<>>, <<"a">>, <<"b">> }

HeadingLine(k, title) ==
    IF title = <<>> THEN Hashes(k) ELSE Hashes(k) \o <<" ">> \o title

BodyLines == { <<>>, <<"x">>, <<"x", "x", " ", "y", "y", " ", "z", "z", " ", "w", "w">> }

LineAlphabet ==
    {HeadingLine(k, t) : k \in 1..MaxHeadingDepth, t \in Titles} \cup BodyLines

\* "# A\ntext1\n## B\ntext2"
LineageExample ==
    <<"#", " ", "A", "\n", "t", "e", "x", "t", "1", "\n",
      "#", "#", " ", "B", "\n", "t", "e", "x", "t", "2">>

Documents ==
    {Join(ls, <<"\n">>) : ls \in UNION {[1..n -> LineAlphabet] : n \in 0..MaxLines}}
        \cup {LineageExample}

(***************************************************************************)
(* The store side.  Bounds of the requests and of the uploaded documents.  *)
(***************************************************************************)
NumContents == 2
MaxChunks == 2
NumWorkers == 2
MaxRequests == 3
MaxFaults == 1
LargeExcess == 2

\* limit= of the listings in upload_document / delete_document and in
\* get_document.
StaleSearchLimit == 10000
GetDocumentSearchLimit == 1000

Contents == 0..(NumContents - 1)
Workers == 1..NumWorkers

\* doc_id: hashlib.sha256(content).hexdigest()[:16], the digest of the
\* uploaded bytes and of nothing else of the upload.
DocIdByName(content, file, hier) == <<"sha256_16", content, file.filename>>

DocId(content, file, hier) == <<"sha256_16", content>>

\* The uploaded file's name and declared type: file.filename, file.content_type.
Files == { [filename |-> "a.md", content_type |-> "text/markdown"],
           [filename |-> "", content_type |-> "application/pdf"] }

\* file.filename or "unknown"
FilenameOf(file) == IF file.filename = "" THEN "unknown" ELSE file.filename

\* len(chunks_data) of process_document(content, hierarchical)
ChunkCount(content, hier) == IF hier THEN corpus[content].hier ELSE corpus[content].flat

\* Small documents: the two modes give different counts, the last content
\* is the empty document.  Large documents: the hierarchical split of
\* content 0 has more chunks than one stale listing returns.
SmallCorpus ==
    [c \in Contents |-> [hier |-> IF c < MaxChunks THEN MaxChunks - c ELSE 0,
                         flat |-> IF c < MaxChunks THEN c + 1 ELSE MaxChunks]]

LargeCorpus ==
    [c \in Contents |-> IF c = 0
                        THEN [hier |-> StaleSearchLimit + LargeExcess, flat |-> 1]
                        ELSE [hier |-> 1, flat |-> 0]]

\* Every id a request can name: the ids of the contents.
DocIds == {<<"sha256_16", c>> : c \in Contents}

\* doc_metadata of upload_document (created_at, a timestamp, is left out)
DocMetadata(file, hier, n) ==
    [filename |-> FilenameOf(file),
     content_type |-> file.content_type,
     hierarchical_split |-> hier,
     chunk_count |-> n]

\* chunk_namespace = (*CHUNKS_NAMESPACE, doc_id)
ChunkNamespaceShared(doc_id) == <<"rag", "chunks", <<"sha256_16", 0>> >>

ChunkNamespace(doc_id) == <<"rag", "chunks", doc_id>>

\* chunk_key = f"chunk_{chunk_data['chunk_index']}"
ChunkKey(chunk_index) == <<"chunk_", chunk_index>>

\* The chunk record with the upload's raw file name.
ChunkRecordRawName(content, hier, file, doc_id, i) ==
    [chunk_index |-> i,
     source |-> content,
     hierarchical |-> hier,
     document_id |-> doc_id,
     filename |-> file.filename]

\* The record store_chunk writes: the splitter's chunk (its text and
\* heading fields stand as the content and mode they were split from)
\* with document_id and filename added.
ChunkRecord(content, hier, file, doc_id, i) ==
    [chunk_index |-> i,
     source |-> content,
     hierarchical |-> hier,
     document_id |-> doc_id,
     filename |-> FilenameOf(file)]

(***************************************************************************)
(* The store: aput, adelete, aget, asearch.  The documents namespace is a  *)
(* function from keys to values.  A chunk namespace holds, under the key   *)
(* chunk_<i>, a record whose chunk_index is i (store_chunk derives the key *)
(* from it), and is kept as a list of runs: a run [lo, hi, value] stands   *)
(* for the keys chunk_lo..chunk_hi, each holding value with its own index  *)
(* as chunk_index.  The runs are disjoint, in key order, and adjacent runs *)
(* with the same value are one run, so equal namespaces are equal lists.   *)
(* A listing (query=None) returns the items in key order, cut to offset    *)
(* and limit.                                                              *)
(***************************************************************************)
Aput(ns, key, value) == [k \in DOMAIN ns \cup {key} |-> IF k = key THEN value ELSE ns[k]]

Adelete(ns, key) == [k \in DOMAIN ns \ {key} |-> ns[k]]

EmptyNs == [k \in {} |-> 0]

KeyIndex(key) == key[2]

RunLen(r) == r.hi - r.lo + 1

\* The number of items of a chunk namespace.
RECURSIVE NsCount(_)
NsCount(runs) == IF runs = <<>> THEN 0 ELSE RunLen(Head(runs)) + NsCount(Tail(runs))

NsHas(runs, i) == \E j \in 1..Len(runs) : runs[j].lo <= i /\ i <= runs[j].hi

\* The record under chunk_<i>.
NsGet(runs, i) ==
    LET r == runs[CHOOSE j \in 1..Len(runs) : runs[j].lo <= i /\ i <= runs[j].hi]
    IN [chunk_index |-> i,
        source |-> r.value.source,
        hierarchical |-> r.value.hierarchical,
        document_id |-> r.value.document_id,
        filename |-> r.value.filename]

\* The runs without the keys chunk_lo..chunk_hi.
RECURSIVE CutRuns(_, _, _)
CutRuns(runs, lo, hi) ==
    IF runs = <<>> THEN <<>>
    ELSE LET r == Head(runs)
             left == IF r.lo < lo
                     THEN <<[r EXCEPT !.hi = IF r.hi < lo THEN r.hi ELSE lo - 1]>>
                     ELSE <<>>
             right == IF r.hi > hi
                      THEN <<[r EXCEPT !.lo = IF r.lo > hi THEN r.lo ELSE hi + 1]>>
                      ELSE <<>>
         IN (IF r.hi < lo THEN left ELSE IF r.lo > hi THEN right ELSE left \o right)
            \o CutRuns(Tail(runs), lo, hi)

RECURSIVE MergeRuns(_)
MergeRuns(runs) ==
    IF Len(runs) < 2 THEN runs
    ELSE IF runs[1].hi + 1 = runs[2].lo /\ runs[1].value = runs[2].value
         THEN MergeRuns(<<[runs[1] EXCEPT !.hi = runs[2].hi]>> \o SubSeq(runs, 3, Len(runs)))
         ELSE <<runs[1]>> \o MergeRuns(Tail(runs))

\* The runs with value written under chunk_lo..chunk_hi (an upsert).
PutRuns(runs, lo, hi, value) ==
    LET cut == CutRuns(runs, lo, hi)
    IN MergeRuns(SelectSeq(cut, LAMBDA r : r.hi < lo)
                 \o <<[lo |-> lo, hi |-> hi, value |-> value]>>
                 \o SelectSeq(cut, LAMBDA r : r.lo > hi))

\* The first n items, and what is left without them.
RECURSIVE TakeRuns(_, _)
TakeRuns(runs, n) ==
    IF n <= 0 \/ runs = <<>> THEN <<>>
    ELSE LET r == Head(runs)
         IN IF RunLen(r) <= n
            THEN <<r>> \o TakeRuns(Tail(runs), n - RunLen(r))
            ELSE <<[r EXCEPT !.hi = r.lo + n - 1]>>

RECURSIVE DropRuns(_, _)
DropRuns(runs, n) ==
    IF n <= 0 \/ runs = <<>> THEN runs
    ELSE LET r == Head(runs)
         IN IF RunLen(r) <= n
            THEN DropRuns(Tail(runs), n - RunLen(r))
            ELSE <<[r EXCEPT !.lo = r.lo + n]>> \o Tail(runs)

\* asearch(namespace, query=None, limit, offset): the items, as runs.
Asearch(runs, limit, offset) == TakeRuns(DropRuns(runs, offset), limit)

\* asearch(namespace, query=None, limit=10000).  Which items a listing of
\* more than limit items leaves out is up to the store's order, which the
\* handlers do not fix: the cut is the first limit keys or the last.
StaleListings(runs) ==
    {Asearch(runs, StaleSearchLimit, 0),
     Asearch(runs, StaleSearchLimit, NsCount(runs) - StaleSearchLimit)}

\* The same as the list of Item.key, in listing order.
RECURSIVE ItemKeys(_)
ItemKeys(runs) ==
    IF runs = <<>> THEN <<>>
    ELSE [i \in 1..RunLen(Head(runs)) |-> <<"chunk_", Head(runs).lo + i - 1>>]
         \o ItemKeys(Tail(runs))

\* aput(chunk_namespace, key, value) and adelete(chunk_namespace, key)
AputChunk(runs, key, value) ==
    PutRuns(runs, KeyIndex(key), KeyIndex(key),
            [source |-> value.source, hierarchical |-> value.hierarchical,
             document_id |-> value.document_id, filename |-> value.filename])

AdeleteChunk(runs, key) == CutRuns(runs, KeyIndex(key), KeyIndex(key))

\* adelete of every item of a listing, one after the other.
RECURSIVE AdeleteAll(_, _)
AdeleteAll(runs, listed) ==
    IF listed = <<>> THEN runs
    ELSE AdeleteAll(CutRuns(runs, Head(listed).lo, Head(listed).hi), Tail(listed))

(***************************************************************************)
(* The request handlers, one action per stretch of code between two        *)
(* awaits of a store operation.  Workers are the concurrently running      *)
(* handler invocations of the event loop.                                  *)
(***************************************************************************)
AnyFile == CHOOSE f \in Files : TRUE

IdleReq ==
    [op |-> "idle", pc |-> "idle", content |-> 0, file |-> AnyFile, hier |-> TRUE,
     doc_id |-> <<"sha256_16", 0>>, n |-> 0, existing_doc |-> FALSE,
     old_chunks |-> <<>>, status |-> "none", chunk_count |-> 0, listing |-> <<>>,
     skip |-> 0, limit |-> 0, tmp_path |-> 0]

Busy(w) == req[w].pc \notin {"idle", "done"}

\* A new request goes to the first worker that is not handling one; the
\* model stops at MaxRequests requests.
Free(w) ==
    /\ ~ Busy(w)
    /\ \A v \in 1..(w - 1) : Busy(v)
    /\ served < MaxRequests

At(w, op, pc) == req[w].op = op /\ req[w].pc = pc

NewReq(w, op) == [IdleReq EXCEPT !.op = op, !.pc = "aget"]

\* The handler returns: what stays is the response (status, document id,
\* filename, chunk count, "updated" or "uploaded", the chunk list) and the
\* content and page it was asked for.
Finish(r, status) ==
    [IdleReq EXCEPT !.op = r.op, !.pc = "done", !.status = status,
                    !.content = r.content, !.doc_id = r.doc_id,
                    !.file = r.file, !.existing_doc = r.existing_doc,
                    !.chunk_count = r.chunk_count, !.listing = r.listing,
                    !.skip = r.skip, !.limit = r.limit]

\* chunks.sort(key=lambda c: c.chunk_index or 0): a stable sort
RECURSIVE SortByChunkIndex(_)
SortByChunkIndex(items) ==
    IF items = <<>> THEN <<>>
    ELSE LET i == CHOOSE x \in 1..Len(items) :
                    \A y \in 1..Len(items) :
                        \/ items[x].chunk_index < items[y].chunk_index
                        \/ (items[x].chunk_index = items[y].chunk_index /\ x <= y)
         IN <<items[i]>> \o
            SortByChunkIndex([j \in 1..(Len(items) - 1) |->
                                 IF j < i THEN items[j] ELSE items[j + 1]])

\* The ChunkResponse list built from a listing of a chunk namespace.
ChunkResponses(listed) ==
    LET keys == ItemKeys(listed)
    IN SortByChunkIndex([i \in 1..Len(keys) |-> NsGet(listed, KeyIndex(keys[i]))])

----
\* finally: if os.path.exists(tmp_path): os.unlink(tmp_path)
Unlink(files, tmp_path) == files \ {tmp_path}

\* upload_document fails while it stages the upload: file.read() or
\* tmp.write(content) raises inside the with block, which is before the
\* try.  NamedTemporaryFile(delete=False) has created the file; the with
\* block closes it and nothing unlinks it.  The exception leaves the
\* handler as it is (no HTTPException is built from it).
UploadReadError(w) ==
    /\ Free(w)
    /\ faults < MaxFaults
    /\ faults' = faults + 1
    /\ req' = [req EXCEPT ![w] = Finish(NewReq(w, "upload"), "unhandled")]
    /\ served' = served + 1
    /\ tmp_files' = tmp_files \cup {served + 1}
    /\ UNCHANGED <<store_vars, tasks, corpus, last, split_vars, handle_vars>>

\* get_store() or process_document (conversion, splitting) raises: inside
\* the try and before doc_id is computed, so except builds the
\* HTTPException(500) and finally unlinks the staged file.
UploadProcessError(w) ==
    /\ Free(w)
    /\ faults < MaxFaults
    /\ faults' = faults + 1
    /\ req' = [req EXCEPT ![w] = Finish(NewReq(w, "upload"), "error")]
    /\ served' = served + 1
    /\ tmp_files' = Unlink(tmp_files \cup {served + 1}, served + 1)
    /\ UNCHANGED <<store_vars, tasks, corpus, last, split_vars, handle_vars>>

\* upload_document up to its first store call: the upload is read and
\* staged, process_document converts and splits it, the id is computed.
UploadStart(w, content, file, hier) ==
    /\ Free(w)
    /\ req' = [req EXCEPT ![w] =
                 [NewReq(w, "upload") EXCEPT
                    !.content = content, !.file = file, !.hier = hier,
                    !.doc_id = DocId(content, file, hier),
                    !.n = ChunkCount(content, hier),
                    !.tmp_path = served + 1]]
    /\ served' = served + 1
    /\ tmp_files' = tmp_files \cup {served + 1}
    /\ UNCHANGED <<store_vars, tasks, corpus, faults, last, split_vars,
                 handle_vars>>

\* existing_doc = await store.aget(DOCUMENTS_NAMESPACE, doc_id)
UploadAget(w) ==
    /\ At(w, "upload", "aget")
    /\ LET existing == req[w].doc_id \in DOMAIN docs
       IN req' = [req EXCEPT ![w].existing_doc = existing,
                             ![w].pc = IF existing THEN "asearch" ELSE "put_meta"]
    /\ UNCHANGED <<store_vars, tasks, corpus, faults, last, served, tmp_files, split_vars,
                 handle_vars>>

\* old_chunks = await store.asearch(old_chunk_namespace, query=None, limit=10000)
UploadAsearch(w) ==
    /\ At(w, "upload", "asearch")
    /\ \E listed \in StaleListings(chunks[ChunkNamespace(req[w].doc_id)]) :
          LET old == ItemKeys(listed)
          IN req' = [req EXCEPT ![w].old_chunks = old,
                                ![w].pc = IF old = <<>> THEN "put_meta" ELSE "adelete"]
    /\ UNCHANGED <<store_vars, tasks, corpus, faults, last, served, tmp_files, split_vars,
                 handle_vars>>

\* for chunk in old_chunks: await store.adelete(old_chunk_namespace, chunk.key)
UploadAdelete(w) ==
    /\ At(w, "upload", "adelete")
    /\ chunks' = [chunks EXCEPT ![ChunkNamespace(req[w].doc_id)] = AdeleteChunk(@, Head(req[w].old_chunks))]
    /\ req' = [req EXCEPT ![w].old_chunks = Tail(@),
                          ![w].pc = IF Tail(req[w].old_chunks) = <<>>
                                    THEN "put_meta" ELSE "adelete"]
    /\ UNCHANGED <<docs, tasks, corpus, faults, last, served, tmp_files, split_vars,
                 handle_vars>>

\* A gather that leaves the last chunk of chunks_data out.
GatherTasksButLast(w, r) ==
    {[owner |-> w, awaited |-> TRUE, doc_id |-> r.doc_id, chunk_index |-> i,
      value |-> ChunkRecord(r.content, r.hier, r.file, r.doc_id, i)] : i \in 0..(r.n - 2)}

\* The store_chunk coroutines asyncio.gather starts for chunks_data.
GatherTasks(w, r) ==
    {[owner |-> w, awaited |-> TRUE, doc_id |-> r.doc_id, chunk_index |-> i,
      value |-> ChunkRecord(r.content, r.hier, r.file, r.doc_id, i)] : i \in 0..(r.n - 1)}

\* await store.aput(DOCUMENTS_NAMESPACE, doc_id, doc_metadata, index=False),
\* then the store_chunk tasks are created and gathered.
UploadPutMeta(w) ==
    /\ At(w, "upload", "put_meta")
    /\ docs' = Aput(docs, req[w].doc_id, DocMetadata(req[w].file, req[w].hier, req[w].n))
    /\ tasks' = tasks \cup GatherTasks(w, req[w])
    /\ req' = [req EXCEPT ![w].pc = "gather"]
    /\ UNCHANGED <<chunks, corpus, faults, last, served, tmp_files, split_vars,
                 handle_vars>>

\* store_chunk: await store.aput(chunk_namespace, chunk_key, chunk_data)
StoreChunk(t) ==
    /\ t \in tasks
    /\ chunks' = [chunks EXCEPT ![ChunkNamespace(t.doc_id)] = AputChunk(@, ChunkKey(t.chunk_index), t.value)]
    /\ tasks' = tasks \ {t}
    /\ UNCHANGED <<docs, req, corpus, faults, last, served, tmp_files, split_vars,
                 handle_vars>>

\* The success response given without waiting for the gather.
UploadReturnEarly(w) ==
    /\ At(w, "upload", "gather")
    /\ req' = [req EXCEPT ![w] = [Finish(@, "success") EXCEPT !.chunk_count = req[w].n]]
    /\ tmp_files' = Unlink(tmp_files, req[w].tmp_path)
    /\ UNCHANGED <<store_vars, tasks, corpus, faults, last, served, split_vars,
                 handle_vars>>

\* asyncio.gather returns once every task is done: the success response.
UploadReturn(w) ==
    /\ At(w, "upload", "gather")
    /\ ~ \E t \in tasks : t.owner = w /\ t.awaited
    /\ req' = [req EXCEPT ![w] = [Finish(@, "success") EXCEPT !.chunk_count = req[w].n]]
    /\ tmp_files' = Unlink(tmp_files, req[w].tmp_path)
    /\ UNCHANGED <<store_vars, tasks, corpus, faults, last, served, split_vars,
                 handle_vars>>

\* A store call of the handler itself raises (or the request is cancelled
\* while it waits): except Exception -> HTTPException(500).
UploadStoreError(w) ==
    /\ req[w].op = "upload"
    /\ req[w].pc \in {"aget", "asearch", "adelete", "put_meta"}
    /\ faults < MaxFaults
    /\ faults' = faults + 1
    /\ req' = [req EXCEPT ![w] = Finish(@, "error")]
    /\ tmp_files' = Unlink(tmp_files, req[w].tmp_path)
    /\ UNCHANGED <<store_vars, tasks, corpus, last, served, split_vars,
                 handle_vars>>

\* A store_chunk task raises.  gather (return_exceptions=False) hands the
\* first exception to the handler at once and does not cancel the other
\* tasks: they keep running with nobody awaiting them.
StoreChunkError(t) ==
    /\ t \in tasks
    /\ faults < MaxFaults
    /\ faults' = faults + 1
    /\ tasks' = {IF u.owner = t.owner /\ t.awaited THEN [u EXCEPT !.awaited = FALSE] ELSE u :
                    u \in tasks \ {t}}
    /\ req' = IF t.awaited THEN [req EXCEPT ![t.owner] = Finish(@, "error")] ELSE req
    /\ tmp_files' = IF t.awaited THEN Unlink(tmp_files, req[t.owner].tmp_path) ELSE tmp_files
    /\ UNCHANGED <<store_vars, corpus, last, served, split_vars, handle_vars>>

----
\* delete_document
DeleteStart(w, document_id) ==
    /\ Free(w)
    /\ req' = [req EXCEPT ![w] = [NewReq(w, "delete") EXCEPT !.doc_id = document_id]]
    /\ served' = served + 1
    /\ UNCHANGED <<store_vars, tasks, corpus, faults, last, tmp_files, split_vars,
                 handle_vars>>

\* delete_document clearing the chunk namespace of an id it did not find.
DeleteAgetPurging(w) ==
    /\ At(w, "delete", "aget")
    /\ req' = [req EXCEPT ![w] = IF req[w].doc_id \in DOMAIN docs
                                 THEN [@ EXCEPT !.pc = "asearch"]
                                 ELSE Finish(@, "not_found")]
    /\ chunks' = IF req[w].doc_id \in DOMAIN docs THEN chunks
                 ELSE [chunks EXCEPT ![ChunkNamespace(req[w].doc_id)] = <<>>]
    /\ UNCHANGED <<docs, tasks, corpus, faults, last, served, tmp_files, split_vars,
                 handle_vars>>

\* doc_item = await store.aget(...); 404 when it is None
DeleteAget(w) ==
    /\ At(w, "delete", "aget")
    /\ req' = [req EXCEPT ![w] = IF req[w].doc_id \in DOMAIN docs
                                 THEN [@ EXCEPT !.pc = "asearch"]
                                 ELSE Finish(@, "not_found")]
    /\ UNCHANGED <<store_vars, tasks, corpus, faults, last, served, tmp_files, split_vars,
                 handle_vars>>

\* chunk_results = await store.asearch(chunk_namespace, query=None, limit=10000)
DeleteAsearch(w) ==
    /\ At(w, "delete", "asearch")
    /\ \E listed \in StaleListings(chunks[ChunkNamespace(req[w].doc_id)]) :
          LET old == ItemKeys(listed)
          IN req' = [req EXCEPT ![w].old_chunks = old,
                                ![w].pc = IF old = <<>> THEN "del_meta" ELSE "adelete"]
    /\ UNCHANGED <<store_vars, tasks, corpus, faults, last, served, tmp_files, split_vars,
                 handle_vars>>

\* for item in chunk_results: await store.adelete(chunk_namespace, item.key)
DeleteAdelete(w) ==
    /\ At(w, "delete", "adelete")
    /\ chunks' = [chunks EXCEPT ![ChunkNamespace(req[w].doc_id)] = AdeleteChunk(@, Head(req[w].old_chunks))]
    /\ req' = [req EXCEPT ![w].old_chunks = Tail(@),
                          ![w].pc = IF Tail(req[w].old_chunks) = <<>>
                                    THEN "del_meta" ELSE "adelete"]
    /\ UNCHANGED <<docs, tasks, corpus, faults, last, served, tmp_files, split_vars,
                 handle_vars>>

\* await store.adelete(DOCUMENTS_NAMESPACE, document_id); return success
DeleteMeta(w) ==
    /\ At(w, "delete", "del_meta")
    /\ docs' = Adelete(docs, req[w].doc_id)
    /\ req' = [req EXCEPT ![w] = Finish(@, "success")]
    /\ UNCHANGED <<chunks, tasks, corpus, faults, last, served, tmp_files, split_vars,
                 handle_vars>>

----
\* get_document and get_document_chunks
GetStart(w, document_id) ==
    /\ Free(w)
    /\ req' = [req EXCEPT ![w] = [NewReq(w, "get") EXCEPT !.doc_id = document_id]]
    /\ served' = served + 1
    /\ UNCHANGED <<store_vars, tasks, corpus, faults, last, tmp_files, split_vars,
                 handle_vars>>

ChunksStart(w, document_id, skip, limit) ==
    /\ Free(w)
    /\ req' = [req EXCEPT ![w] = [NewReq(w, "chunks") EXCEPT
                                    !.doc_id = document_id, !.skip = skip, !.limit = limit]]
    /\ served' = served + 1
    /\ UNCHANGED <<store_vars, tasks, corpus, faults, last, tmp_files, split_vars,
                 handle_vars>>

\* doc_item = await store.aget(...); 404 when it is None; get_document
\* builds its DocumentResponse from the record.
ReadAget(w) ==
    /\ req[w].op \in {"get", "chunks"} /\ req[w].pc = "aget"
    /\ req' = [req EXCEPT ![w] =
                 IF req[w].doc_id \in DOMAIN docs
                 THEN [@ EXCEPT !.pc = "asearch",
                                !.chunk_count = docs[req[w].doc_id].chunk_count]
                 ELSE Finish(@, "not_found")]
    /\ UNCHANGED <<store_vars, tasks, corpus, faults, last, served, tmp_files, split_vars,
                 handle_vars>>

\* get_document: asearch(chunk_namespace, query=None, limit=1000), sorted
GetAsearch(w) ==
    /\ At(w, "get", "asearch")
    /\ LET ns == chunks[ChunkNamespace(req[w].doc_id)]
       IN req' = [req EXCEPT ![w] =
                    [Finish(@, "success") EXCEPT
                       !.listing = ChunkResponses(Asearch(ns, GetDocumentSearchLimit, 0))]]
    /\ UNCHANGED <<store_vars, tasks, corpus, faults, last, served, tmp_files, split_vars,
                 handle_vars>>

\* get_document_chunks: asearch(chunk_namespace, query=None, limit, offset=skip), sorted
ChunksAsearch(w) ==
    /\ At(w, "chunks", "asearch")
    /\ LET ns == chunks[ChunkNamespace(req[w].doc_id)]
       IN req' = [req EXCEPT ![w] =
                    [Finish(@, "success") EXCEPT
                       !.listing = ChunkResponses(Asearch(ns, req[w].limit, req[w].skip))]]
    /\ UNCHANGED <<store_vars, tasks, corpus, faults, last, served, tmp_files, split_vars,
                 handle_vars>>

(***************************************************************************)
(* The handlers run one at a time, each to successful completion: the      *)
(* whole of upload_document and of delete_document as one step.  The gather*)
(* of the chunk writes ends with every chunk written, in whatever order.   *)
(***************************************************************************)
NoCall ==
    [op |-> "none", status |-> "none", doc_id |-> <<"sha256_16", 0>>, content |-> 0,
     hier |-> TRUE, existing_doc |-> FALSE, found |-> 0, deleted |-> 0,
     chunk_count |-> 0, repeat |-> FALSE, prev_doc_id |-> <<"sha256_16", 0>>,
     filename |-> "", listing |-> <<>>, action |-> "none"]

\* The action the response message names, whatever the existence check
\* found.
UploadActionUploaded(existing_doc) == "uploaded"

\* action = "updated" if existing_doc else "uploaded"
UploadAction(existing_doc) == IF existing_doc THEN "updated" ELSE "uploaded"

\* The chunk writes of one gather, all done.
StoreChunks(runs, n, value) ==
    IF n = 0 THEN runs ELSE PutRuns(runs, 0, n - 1, value)

UploadDocument(content, file, hier) ==
    LET doc_id == DocId(content, file, hier)
        n == ChunkCount(content, hier)
        ns == chunks[ChunkNamespace(doc_id)]
        existing_doc == doc_id \in DOMAIN docs
        value == ChunkRecord(content, hier, file, doc_id, 0)
    IN \E old_chunks \in (IF existing_doc THEN StaleListings(ns) ELSE {<<>>}) :
       /\ docs' = Aput(docs, doc_id, DocMetadata(file, hier, n))
       /\ chunks' = [chunks EXCEPT ![ChunkNamespace(doc_id)] =
                       StoreChunks(AdeleteAll(ns, old_chunks), n, value)]
       /\ last' = [op |-> "upload", status |-> "success", doc_id |-> doc_id,
                   content |-> content, hier |-> hier, existing_doc |-> existing_doc,
                   found |-> NsCount(ns), deleted |-> NsCount(old_chunks),
                   chunk_count |-> n,
                   repeat |-> last.op = "upload" /\ last.content = content,
                   prev_doc_id |-> last.doc_id,
                   filename |-> FilenameOf(file), listing |-> <<>>,
                   action |-> UploadAction(existing_doc)]
       /\ UNCHANGED <<req, tasks, corpus, faults, served, tmp_files, split_vars,
                 handle_vars>>

DeleteDocument(document_id) ==
    LET ns == chunks[ChunkNamespace(document_id)]
    IN \E chunk_results \in StaleListings(ns) :
       /\ document_id \in DOMAIN docs
       /\ chunks' = [chunks EXCEPT ![ChunkNamespace(document_id)] =
                       AdeleteAll(ns, chunk_results)]
       /\ docs' = Adelete(docs, document_id)
       /\ last' = [NoCall EXCEPT !.op = "delete", !.status = "success",
                                 !.doc_id = document_id,
                                 !.existing_doc = TRUE,
                                 !.found = NsCount(ns),
                                 !.deleted = NsCount(chunk_results),
                                 !.prev_doc_id = last.doc_id]
       /\ UNCHANGED <<req, tasks, corpus, faults, served, tmp_files, split_vars,
                 handle_vars>>

DeleteMissingDocument(document_id) ==
    /\ document_id \notin DOMAIN docs
    /\ last' = [NoCall EXCEPT !.op = "delete", !.status = "not_found",
                              !.doc_id = document_id, !.prev_doc_id = last.doc_id]
    /\ UNCHANGED <<store_vars, req, tasks, corpus, faults, served, tmp_files, split_vars,
                 handle_vars>>

\* get_document on a stored document.  The listing is cut to limit=1000
\* items (the first or the last, as the store's order has it) and sorted by
\* chunk_index: as runs, which are in chunk_index order.
GetDocument(document_id) ==
    LET ns == chunks[ChunkNamespace(document_id)]
    IN \E chunk_results \in
            {Asearch(ns, GetDocumentSearchLimit, 0),
             Asearch(ns, GetDocumentSearchLimit, NsCount(ns) - GetDocumentSearchLimit)} :
       /\ document_id \in DOMAIN docs
       /\ last' = [NoCall EXCEPT !.op = "get", !.status = "success",
                                 !.doc_id = document_id,
                                 !.existing_doc = TRUE,
                                 !.found = NsCount(ns),
                                 !.chunk_count = docs[document_id].chunk_count,
                                 !.filename = docs[document_id].filename,
                                 !.listing = chunk_results,
                                 !.prev_doc_id = last.doc_id]
       /\ UNCHANGED <<store_vars, req, tasks, corpus, faults, served, tmp_files, split_vars,
                 handle_vars>>

(***************************************************************************)
(* search_documents.  A filter is a dict: a function from its keys to      *)
(* their values.  The empty string is <<>>.  The handler makes one store   *)
(* call, so it is one step.                                                *)
(***************************************************************************)
NoFilter == [k \in {} |-> <<>>]

\* request.filter: absent, or with a document_id (of a document, or the
\* empty string) and with or without a further entry on a chunk field.
SearchFilters ==
    {NoFilter, [filename |-> "a.md"]}
        \cup {[document_id |-> d] : d \in DocIds \cup {<<>>}}
        \cup {[document_id |-> d, filename |-> "a.md"] : d \in DocIds \cup {<<>>}}

\* filter_dict.pop("document_id", None)
PopDocumentId(filter_dict) ==
    [k \in DOMAIN filter_dict \ {"document_id"} |-> filter_dict[k]]

\* The search over all chunks whatever document_id the filter names.
SearchNamespaceAll(filter_dict) == <<"rag", "chunks">>

\* namespace = (*CHUNKS_NAMESPACE, document_id) if document_id else CHUNKS_NAMESPACE
SearchNamespace(filter_dict) ==
    IF "document_id" \in DOMAIN filter_dict /\ filter_dict["document_id"] # <<>>
    THEN <<"rag", "chunks", filter_dict["document_id"]>>
    ELSE <<"rag", "chunks">>

\* filter=filter_dict if filter_dict else None
PassedFilter(filter_dict) ==
    LET rest == PopDocumentId(filter_dict)
    IN [none |-> rest = NoFilter, entries |-> rest]

\* The items of a chunk namespace, as runs with their namespace.
StoreItems(ns) ==
    {[namespace |-> ns, lo |-> chunks[ns][j].lo, hi |-> chunks[ns][j].hi,
      value |-> chunks[ns][j].value] : j \in 1..Len(chunks[ns])}

\* store.asearch(namespace_prefix, query, filter): the items of the
\* namespaces under the prefix whose value has the filter's entries.
\* Which of them the query ranks within limit and offset is left open:
\* every one of them can be returned.
StoreSearch(namespace_prefix, passed) ==
    {item \in UNION {StoreItems(ns) : ns \in DOMAIN chunks} :
        /\ SubSeq(item.namespace, 1, Len(namespace_prefix)) = namespace_prefix
        /\ \A k \in DOMAIN passed.entries : item.value[k] = passed.entries[k]}

\* doc_id = chunk_data.get("document_id", "") or item.namespace[2]
ResultDocumentId(item) ==
    IF item.value.document_id # <<>> THEN item.value.document_id ELSE item.namespace[3]

SearchDocuments(request_filter) ==
    LET namespace == SearchNamespace(request_filter)
        passed == PassedFilter(request_filter)
    IN /\ last' = [op |-> "search", status |-> "success",
                    request_filter |-> request_filter,
                    namespace |-> namespace,
                    passed_filter |-> passed,
                    results |-> StoreSearch(namespace, passed)] @@ NoCall
       /\ UNCHANGED <<store_vars, req, tasks, corpus, faults, served, tmp_files, split_vars,
                 handle_vars>>

(***************************************************************************)
(* process_document on a Markdown text.                                    *)
(***************************************************************************)
ProcessDocument ==
    /\ split_pc = "input"
    /\ chunks_data' = SplitDocument(markdown_content, hierarchical)
    /\ split_pc' = "done"
    /\ UNCHANGED <<markdown_content, hierarchical, store_vars, req, tasks, corpus,
                   faults, served, tmp_files, last, handle_vars>>

(***************************************************************************)
(* Specifications.                                                         *)
(***************************************************************************)
(***************************************************************************)
(* The store handle of src/api/store.py and src/mcp/server.py: get_store   *)
(* and close_store as coroutines, one step from each await to the next.    *)
(* Handles and context managers are numbered from 1; None is 0.            *)
(***************************************************************************)
NumCallers == 2
MaxHandles == 2

None == 0
Callers == 1..NumCallers

IdleCall == [pc |-> "idle", cm |-> None, got |-> None]

\* _store: Optional[AsyncPostgresStore] = None; _store_cm = None
HandleNone ==
    /\ _store = None
    /\ _store_cm = None
    /\ made = 0
    /\ opened = {}
    /\ set_up = {}
    /\ closed = {}
    /\ calls = [c \in Callers |-> IdleCall]
    /\ closing = [pc |-> "idle", cm |-> None]

\* lifespan: await get_store() before the application serves a request
HandleReady ==
    /\ _store = 1
    /\ _store_cm = 1
    /\ made = 1
    /\ opened = {1}
    /\ set_up = {1}
    /\ closed = {}
    /\ calls = [c \in Callers |-> IdleCall]
    /\ closing = [pc |-> "idle", cm |-> None]

rest_vars == <<markdown_content, hierarchical, chunks_data, split_pc,
               docs, chunks, req, tasks, corpus, faults, served, tmp_files, last>>

\* get_store with _store set: the test fails and the handle is returned,
\* with no await on the way.
GetStoreReturn(c) ==
    /\ calls[c].pc \in {"idle", "done"}
    /\ _store # None
    /\ calls' = [calls EXCEPT ![c] = [pc |-> "done", cm |-> None, got |-> _store]]
    /\ UNCHANGED <<_store, _store_cm, made, opened, set_up, closed, closing, rest_vars>>

\* get_store with _store None: _store_cm = from_conn_string(...), and the
\* call waits in _store_cm.__aenter__() of the context manager it built.
GetStoreCreate(c) ==
    /\ calls[c].pc \in {"idle", "done"}
    /\ _store = None
    /\ made < MaxHandles
    /\ made' = made + 1
    /\ _store_cm' = made + 1
    /\ calls' = [calls EXCEPT ![c] = [pc |-> "aenter", cm |-> made + 1, got |-> None]]
    /\ UNCHANGED <<_store, opened, set_up, closed, closing, rest_vars>>

\* __aenter__ returns: the connection is open, _store = <its store>, and
\* the call waits in the setup() of that store.
GetStoreAenter(c) ==
    /\ calls[c].pc = "aenter"
    /\ opened' = opened \cup {calls[c].cm}
    /\ _store' = calls[c].cm
    /\ calls' = [calls EXCEPT ![c].pc = "setup"]
    /\ UNCHANGED <<_store_cm, made, set_up, closed, closing, rest_vars>>

\* setup() returns; return _store reads the module variable again.
GetStoreSetup(c) ==
    /\ calls[c].pc = "setup"
    /\ set_up' = set_up \cup {calls[c].cm}
    /\ calls' = [calls EXCEPT ![c] = [pc |-> "done", cm |-> None, got |-> _store]]
    /\ UNCHANGED <<_store, _store_cm, made, opened, closed, closing, rest_vars>>

\* close_store with both variables set: waits in _store_cm.__aexit__()
CloseStoreStart ==
    /\ closing.pc = "idle"
    /\ _store # None /\ _store_cm # None
    /\ closing' = [pc |-> "aexit", cm |-> _store_cm]
    /\ UNCHANGED <<_store, _store_cm, made, opened, set_up, closed, calls, rest_vars>>

\* __aexit__ returns: _store = None; _store_cm = None
CloseStoreExit ==
    /\ closing.pc = "aexit"
    /\ closed' = closed \cup {closing.cm}
    /\ _store' = None
    /\ _store_cm' = None
    /\ closing' = [pc |-> "idle", cm |-> None]
    /\ UNCHANGED <<made, opened, set_up, calls, rest_vars>>

StoreInit ==
    /\ docs = EmptyNs
    /\ chunks = [ns \in {ChunkNamespace(d) : d \in DocIds} |-> <<>>]
    /\ req = [w \in Workers |-> IdleReq]
    /\ tasks = {}
    /\ faults = 0
    /\ served = 0
    /\ tmp_files = {}
    /\ last = NoCall

SplitIdle ==
    /\ markdown_content = <<>>
    /\ hierarchical = TRUE
    /\ chunks_data = <<>>
    /\ split_pc = "idle"

\* Concurrent handlers over small documents.
Init == StoreInit /\ SplitIdle /\ corpus = SmallCorpus /\ HandleReady

\* skip and limit of get_document_chunks: the defaults, and a one-item page.
Pages == {[skip |-> 0, limit |-> 50], [skip |-> 1, limit |-> 1]}

Next ==
    \/ \E w \in Workers, c \in Contents, f \in Files, h \in BOOLEAN : UploadStart(w, c, f, h)
    \/ \E w \in Workers : UploadReadError(w)
    \/ \E w \in Workers : UploadProcessError(w)
    \/ \E w \in Workers : UploadAget(w)
    \/ \E w \in Workers : UploadAsearch(w)
    \/ \E w \in Workers : UploadAdelete(w)
    \/ \E w \in Workers : UploadPutMeta(w)
    \/ \E t \in tasks : StoreChunk(t)
    \/ \E w \in Workers : UploadReturn(w)
    \/ \E w \in Workers : UploadStoreError(w)
    \/ \E t \in tasks : StoreChunkError(t)
    \/ \E w \in Workers, d \in DocIds : DeleteStart(w, d)
    \/ \E w \in Workers : DeleteAget(w)
    \/ \E w \in Workers : DeleteAsearch(w)
    \/ \E w \in Workers : DeleteAdelete(w)
    \/ \E w \in Workers : DeleteMeta(w)
    \/ \E w \in Workers, d \in DocIds : GetStart(w, d)
    \/ \E w \in Workers, d \in DocIds, pg \in Pages :
          ChunksStart(w, d, pg.skip, pg.limit)
    \/ \E w \in Workers : ReadAget(w)
    \/ \E w \in Workers : GetAsearch(w)
    \/ \E w \in Workers : ChunksAsearch(w)

Spec == Init /\ [][Next]_vars

\* Handlers one at a time over documents that include a large one.
InitSeq == StoreInit /\ SplitIdle /\ corpus = LargeCorpus /\ HandleReady

NextSeq ==
    \/ \E c \in Contents, f \in Files, h \in BOOLEAN : UploadDocument(c, f, h)
    \/ \E d \in DocIds : DeleteDocument(d)
    \/ \E d \in DocIds : DeleteMissingDocument(d)
    \/ \E d \in DocIds : GetDocument(d)
    \/ \E f \in SearchFilters : SearchDocuments(f)

SpecSeq == InitSeq /\ [][NextSeq]_vars

\* The splitters on every document of the bounded set.
InitSplit ==
    /\ StoreInit
    /\ corpus = SmallCorpus
    /\ markdown_content \in Documents
    /\ hierarchical \in BOOLEAN
    /\ chunks_data = <<>>
    /\ split_pc = "input"
    /\ HandleReady

NextSplit == ProcessDocument

SpecSplit == InitSplit /\ [][NextSplit]_vars

\* The store handle from process start, before anything has used it.
InitHandle == StoreInit /\ SplitIdle /\ corpus = SmallCorpus /\ HandleNone

NextHandle ==
    \/ \E c \in Callers : GetStoreReturn(c)
    \/ \E c \in Callers : GetStoreCreate(c)
    \/ \E c \in Callers : GetStoreAenter(c)
    \/ \E c \in Callers : GetStoreSetup(c)
    \/ CloseStoreStart
    \/ CloseStoreExit

SpecHandle == InitHandle /\ [][NextHandle]_vars

(***************************************************************************)
(* Properties of the splitters (SpecSplit).                                *)
(***************************************************************************)
LevelsOf(c) == <<c.level1, c.level2, c.level3, c.level4, c.level5, c.level6>>

\* C1: in both split modes the chunk_index values of the returned list,
\* read in emission order, are 0, 1, ..., n-1: they start at 0, go up by
\* one per chunk and are not reset at a section boundary.
C1_ChunkIndexContiguous ==
    split_pc = "done" =>
        \A i \in 1..Len(chunks_data) : chunks_data[i].chunk_index = i - 1

\* A hierarchical split of at least three chunks, a section of two chunks
\* followed by a chunk of another section.
C1_Witness ==
    /\ split_pc = "done"
    /\ hierarchical
    /\ Len(chunks_data) >= 3
    /\ \E i \in 2..(Len(chunks_data) - 1) :
          /\ chunks_data[i - 1].section_path = chunks_data[i].section_path
          /\ chunks_data[i].section_path # chunks_data[i + 1].section_path
          /\ chunks_data[i + 1].chunk_index = i

\* C2: section_level of every chunk is the number of non-empty fields
\* among level1..level6 and section_path is those non-empty values joined
\* in depth order with " > "; in flat mode the six levels and the path are
\* empty and the level is 0.
C2_SectionFieldsDerived ==
    split_pc = "done" =>
        \A i \in 1..Len(chunks_data) :
            LET c == chunks_data[i]
                parts == SelectNonEmpty(LevelsOf(c))
            IN /\ c.section_level = Len(parts)
               /\ c.section_path = Join(parts, <<" ", ">", " ">>)
               /\ ~ hierarchical =>
                     /\ parts = <<>>
                     /\ c.section_path = <<>>
                     /\ c.section_level = 0

\* A chunk under a second-level heading whose first-level heading has an
\* empty title next to a chunk with a two-part path.
C2_Witness ==
    /\ split_pc = "done"
    /\ hierarchical
    /\ \E i \in 1..Len(chunks_data) :
          /\ chunks_data[i].level1 = <<>>
          /\ chunks_data[i].level2 # <<>>
          /\ chunks_data[i].section_level = 1
          /\ chunks_data[i].section_path = chunks_data[i].level2

(***************************************************************************)
(* Properties of the handlers run one at a time (SpecSeq).                 *)
(***************************************************************************)
\* The chunk namespace that holds exactly the n chunks chunk_0..chunk_(n-1)
\* written by an upload of content in mode hier.
HoldsExactly(runs, n, content, hier) ==
    /\ NsCount(runs) = n
    /\ \A j \in 1..Len(runs) :
          /\ runs[j].hi < n
          /\ runs[j].value.source = content
          /\ runs[j].value.hierarchical = hier

\* C3: when the same bytes are uploaded twice in sequence, both uploads
\* return the same document id and afterwards the chunk namespace of that
\* id holds exactly the chunk keys of the second upload; every key of the
\* first upload that the second does not write is absent.
C3_IdempotentReplace ==
    (last.op = "upload" /\ last.repeat) =>
        /\ last.doc_id = last.prev_doc_id
        /\ HoldsExactly(chunks[ChunkNamespace(last.doc_id)], last.chunk_count,
                        last.content, last.hier)

\* C4: after any sequence of non-overlapping successful uploads and
\* deletes, every metadata record's chunk_count is the number of chunk
\* records present in that document's chunk namespace.
C4_ChunkCountMatchesStore ==
    \A d \in DOMAIN docs : docs[d].chunk_count = NsCount(chunks[ChunkNamespace(d)])

\* C6: after a successful delete_document(d), whatever the number of
\* chunks of d, d's chunk namespace is empty (so no chunk record with
\* document_id = d remains) and the metadata record of d is absent.
C6_DeleteRemovesEverything ==
    (last.op = "delete" /\ last.status = "success") =>
        /\ chunks[ChunkNamespace(last.doc_id)] = <<>>
        /\ last.doc_id \notin DOMAIN docs

\* C9: an upload of an id that already has a metadata record deletes every
\* chunk the namespace of that id holds, none skipped, before it writes
\* the first new chunk.
C9_AllStaleChunksDeleted ==
    (last.op = "upload" /\ last.existing_doc) => last.deleted = last.found

(***************************************************************************)
(* Properties of the concurrently running handlers (Spec).                 *)
(***************************************************************************)
\* No handler and no store_chunk task is at work on document_id.
Quiet(document_id) ==
    /\ \A w \in Workers : Busy(w) => req[w].doc_id # document_id
    /\ \A t \in tasks : t.doc_id # document_id

\* C5: an upload that fails or is cancelled at a store operation does not
\* leave a metadata record whose chunk_count differs from the number of
\* chunk records persisted for its id (the chunks being written before
\* the metadata record, not after).
C5_FailedUploadLeavesCountConsistent ==
    \A w \in Workers :
        (/\ req[w].op = "upload" /\ req[w].pc = "done" /\ req[w].status = "error"
         /\ Quiet(req[w].doc_id)
         /\ req[w].doc_id \in DOMAIN docs)
        => docs[req[w].doc_id].chunk_count = NsCount(chunks[ChunkNamespace(req[w].doc_id)])

\* C7: the document id of an upload is a function of the uploaded bytes
\* only: two uploads of the same content have the same id whatever their
\* filename, content type, split mode and the store's contents.
C7_DocIdFromContentOnly ==
    \A v, w \in Workers :
        (/\ req[v].op = "upload" /\ req[w].op = "upload"
         /\ req[v].content = req[w].content)
        => req[v].doc_id = req[w].doc_id

\* Two uploads of the same bytes under different names, types and modes,
\* one finding the document in the store and one not, with the same id.
C7_Witness ==
    \E v, w \in Workers :
        /\ req[v].op = "upload" /\ req[w].op = "upload"
        /\ req[v].pc = "done" /\ req[w].pc = "gather"
        /\ req[v].content = req[w].content
        /\ req[v].file.filename # req[w].file.filename
        /\ req[v].file.content_type # req[w].file.content_type
        /\ ~ req[v].existing_doc /\ req[w].existing_doc
        /\ req[v].chunk_count # req[w].n
        /\ req[v].doc_id = req[w].doc_id

\* The ids whose handler or store_chunk task takes the step.
StepIds ==
    {req[w].doc_id : w \in {v \in Workers : Busy(v) /\ req'[v] # req[v]}}
        \cup {t.doc_id : t \in tasks \ tasks'}

\* The step changes the metadata record or a chunk record of document_id.
StepWrites(document_id) ==
    \/ (document_id \in DOMAIN docs) # (document_id \in DOMAIN docs')
    \/ /\ document_id \in DOMAIN docs
       /\ document_id \in DOMAIN docs'
       /\ docs[document_id] # docs'[document_id]
    \/ chunks[ChunkNamespace(document_id)] # chunks'[ChunkNamespace(document_id)]

\* C8: a step of an upload or a delete of id d leaves the metadata record
\* and every chunk record of every other id e as they are, in every
\* interleaving of concurrent handlers of different ids.
C8_OtherDocumentsUnchanged ==
    [][\A e \in DocIds : StepWrites(e) => e \in StepIds]_vars

\* Two uploads of different documents under way at once, each with a
\* chunk written and a chunk still to write.
C8_Witness ==
    \E v, w \in Workers :
        /\ req[v].op = "upload" /\ req[w].op = "upload"
        /\ req[v].pc = "gather" /\ req[w].pc = "gather"
        /\ req[v].doc_id # req[w].doc_id
        /\ chunks[ChunkNamespace(req[v].doc_id)] # <<>>
        /\ chunks[ChunkNamespace(req[w].doc_id)] # <<>>
        /\ \E t \in tasks : t.owner = v
        /\ \E t \in tasks : t.owner = w

\* The complete chunk set of an upload of document_id, as a chunk listing.
CompleteSet(document_id, hier, file) ==
    [i \in 1..ChunkCount(document_id[2], hier) |->
        ChunkRecord(document_id[2], hier, file, document_id, i - 1)]

\* C10: a get_document or get_document_chunks (whole listing) of id d that
\* runs while an upload is replacing d returns the complete old chunk set
\* or the complete new one, never a mix of the two or a part of one.
C10_NoListingMidReplacement ==
    [][\A w \in Workers, v \in Workers :
          (/\ req[w].op \in {"get", "chunks"} /\ req[w].pc = "asearch"
           /\ req'[w].pc = "done" /\ req[w].skip = 0
           /\ req[v].op = "upload" /\ Busy(v) /\ req[v].existing_doc
           /\ req[v].doc_id = req[w].doc_id
           /\ faults = 0)
          => \E h \in BOOLEAN, f \in Files :
                req'[w].listing = CompleteSet(req[w].doc_id, h, f)]_vars

\* C11: the staged temporary file of an upload is removed on every exit
\* path of the call, so every staged file on disk belongs to an upload
\* that is still running.
C11_TempFileRemoved ==
    \A p \in tmp_files :
        \E w \in Workers : req[w].op = "upload" /\ Busy(w) /\ req[w].tmp_path = p

\* C12: an error raised in any stage of an upload inside the try (store
\* handle, conversion, splitting, existence read, stale-chunk delete,
\* metadata write, a chunk write the handler awaits) ends the upload with
\* the failure response; the success response is given only from the
\* gather, after the metadata write, when no chunk write of the upload is
\* outstanding and none has raised.
C12_NoPartialSuccess ==
    [][/\ \A w \in Workers :
             (req'[w] # req[w] /\ req'[w].op = "upload" /\ req'[w].pc = "done") =>
                /\ req'[w].status \in {"success", "error", "unhandled"}
                /\ req'[w].status = "success" =>
                      /\ faults' = faults
                      /\ req[w].op = "upload" /\ req[w].pc = "gather"
                      /\ ~ \E t \in tasks : t.owner = w /\ t.awaited
                /\ req'[w].status = "error" => faults' = faults + 1
                /\ req'[w].status = "unhandled" => ~ Busy(w)
       /\ faults' # faults =>
             \/ \E w \in Workers :
                   /\ req'[w] # req[w] /\ req'[w].op = "upload"
                   /\ req'[w].pc = "done" /\ req'[w].status # "success"
             \/ \E t \in tasks \ tasks' : ~ t.awaited
             \/ /\ served' = served + 1
                /\ \E w \in Workers :
                      /\ ~ Busy(w) /\ req'[w].op = "upload" /\ req'[w].pc = "done"
                      /\ req'[w].status \in {"error", "unhandled"}]_vars

\* An upload that failed at a chunk write after its metadata write, next
\* to an upload that succeeded with all its chunks in the store.
C12_Witness ==
    \E v, w \in Workers :
        /\ req[v].op = "upload" /\ req[v].pc = "done" /\ req[v].status = "error"
        /\ req[v].doc_id \in DOMAIN docs
        /\ chunks[ChunkNamespace(req[v].doc_id)] = <<>>
        /\ req[w].op = "upload" /\ req[w].pc = "done" /\ req[w].status = "success"
        /\ req[w].doc_id # req[v].doc_id
        /\ req[w].chunk_count > 1
        /\ NsCount(chunks[ChunkNamespace(req[w].doc_id)]) = req[w].chunk_count

\* C13: get_document, delete_document and get_document_chunks called with
\* an id that has no metadata record end with the not-found outcome (404),
\* which is not the internal-failure outcome, and leave the store as it
\* is, chunk records under that id's namespace included; the not-found
\* outcome is given in no other case.
C13_NotFoundLeavesStore ==
    [][\A w \in Workers :
          (req[w].op \in {"get", "delete", "chunks"} /\ req'[w] # req[w]) =>
             /\ (req[w].pc = "aget" /\ req[w].doc_id \notin DOMAIN docs) =>
                   /\ req'[w].pc = "done"
                   /\ req'[w].status = "not_found"
                   /\ docs' = docs
                   /\ chunks' = chunks
             /\ req'[w].status = "not_found" =>
                   /\ req[w].pc = "aget"
                   /\ req[w].doc_id \notin DOMAIN docs]_vars

\* A not-found answer for an id whose chunk namespace holds records (an
\* upload wrote them after a delete had removed the metadata record).
C13_Witness ==
    \E w \in Workers :
        /\ req[w].op \in {"get", "delete", "chunks"}
        /\ req[w].pc = "done" /\ req[w].status = "not_found"
        /\ req[w].doc_id \notin DOMAIN docs
        /\ chunks[ChunkNamespace(req[w].doc_id)] # <<>>
        /\ tasks = {}

(***************************************************************************)
(* Further properties of the splitters (SpecSplit).                        *)
(***************************************************************************)
\* The lines of a Markdown text.
LinesOf(text) == SplitOn(text, <<"\n">>, <<>>)

\* No line of the text is a heading line.
NoHeadingLine(text) ==
    \A i \in 1..Len(LinesOf(text)) : HeaderLevelOf(Strip(LinesOf(text)[i])) = 0

\* C14: for a Markdown document without a heading line the hierarchical
\* split has the chunk texts and chunk_index values of the flat split, in
\* the same order, with level1..level6 and section_path empty and
\* section_level 0.
C14_NoHeadingSameAsFlat ==
    (split_pc = "done" /\ hierarchical /\ NoHeadingLine(markdown_content)) =>
        LET flat == flat_split(markdown_content)
        IN /\ Len(chunks_data) = Len(flat)
           /\ \A i \in 1..Len(chunks_data) :
                 /\ chunks_data[i].text = flat[i].text
                 /\ chunks_data[i].chunk_index = flat[i].chunk_index
                 /\ SelectNonEmpty(LevelsOf(chunks_data[i])) = <<>>
                 /\ chunks_data[i].section_path = <<>>
                 /\ chunks_data[i].section_level = 0

\* The text of the nearest heading of depth k enclosing line p: the last
\* heading line of depth <= k above p, when its depth is k.
NearestHeading(lines, p, k) ==
    LET above == {j \in 1..(p - 1) : HeaderLevelOf(Strip(lines[j])) \in 1..k}
    IN IF above = {} THEN <<>>
       ELSE LET j == CHOOSE x \in above : \A y \in above : y <= x
                line == Strip(lines[j])
            IN IF HeaderLevelOf(line) = k
               THEN Strip(SubSeq(line, k + 1, Len(line)))
               ELSE <<>>

LineageAt(lines, p) == [k \in 1..6 |-> NearestHeading(lines, p, k)]

\* The lineages of the content lines (not blank, not a heading), in order.
ContentLineages(lines) ==
    LET ps == {p \in 1..Len(lines) :
                  Strip(lines[p]) # <<>> /\ HeaderLevelOf(Strip(lines[p])) = 0}
        Nth(n) == CHOOSE p \in ps : Cardinality({q \in ps : q < p}) = n - 1
    IN [n \in 1..Cardinality(ps) |-> LineageAt(lines, Nth(n))]

\* A sequence without its repetitions of the element before.
RECURSIVE Dedup(_)
Dedup(seq) ==
    IF Len(seq) < 2 THEN seq
    ELSE IF seq[1] = seq[2] THEN Dedup(Tail(seq))
         ELSE <<seq[1]>> \o Dedup(Tail(seq))

\* C15: in a hierarchical split level<k> of every chunk is the text of the
\* nearest heading of depth k enclosing the chunk's section, empty when
\* there is none, a heading of depth k clearing the recorded headings of
\* the greater depths; and "# A\ntext1\n## B\ntext2" gives a chunk text1
\* with level1 "A", path "A", level 1 and a chunk text2 with level1 "A",
\* level2 "B", path "A > B", level 2.
C15_HeadingLineage ==
    (split_pc = "done" /\ hierarchical) =>
        /\ Dedup([i \in 1..Len(chunks_data) |-> LevelsOf(chunks_data[i])])
              = Dedup(ContentLineages(LinesOf(markdown_content)))
        /\ markdown_content = LineageExample =>
              /\ Len(chunks_data) = 2
              /\ chunks_data[1].text = <<"t", "e", "x", "t", "1">>
              /\ LevelsOf(chunks_data[1]) = <<<<"A">>, <<>>, <<>>, <<>>, <<>>, <<>>>>
              /\ chunks_data[1].section_path = <<"A">>
              /\ chunks_data[1].section_level = 1
              /\ chunks_data[2].text = <<"t", "e", "x", "t", "2">>
              /\ LevelsOf(chunks_data[2]) = <<<<"A">>, <<"B">>, <<>>, <<>>, <<>>, <<>>>>
              /\ chunks_data[2].section_path = <<"A", " ", ">", " ", "B">>
              /\ chunks_data[2].section_level = 2

\* The hierarchical split of the example document.
C15_Witness ==
    /\ split_pc = "done"
    /\ hierarchical
    /\ markdown_content = LineageExample
    /\ Len(chunks_data) = 2
    /\ chunks_data[2].level2 = <<"B">>

\* A chunk under a first-level heading that follows a second-level one:
\* the deeper heading is cleared.
C15_WitnessCleared ==
    /\ split_pc = "done"
    /\ hierarchical
    /\ \E p \in 2..Len(LinesOf(markdown_content)) :
          /\ HeaderLevelOf(Strip(LinesOf(markdown_content)[p - 1])) = 2
          /\ HeaderLevelOf(Strip(LinesOf(markdown_content)[p])) = 1
    /\ \E i \in 1..Len(chunks_data) :
          chunks_data[i].level1 # <<>> /\ chunks_data[i].level2 = <<>>

(***************************************************************************)
(* Further properties of the handlers run one at a time (SpecSeq).         *)
(***************************************************************************)
\* C16: after a successful upload of id d with filename f and n chunks the
\* namespace ("rag", "chunks", d) holds, for every i in 0..n-1, a record
\* under chunk_<i> with chunk_index i, document_id d and filename f
\* ("unknown" for an upload without a filename), and the documents
\* namespace holds the metadata record under d.
C16_StoredRecords ==
    (last.op = "upload" /\ last.status = "success") =>
        LET d == last.doc_id
            ns == chunks[<<"rag", "chunks", d>>]
        IN /\ d \in DOMAIN docs
           /\ docs[d].chunk_count = last.chunk_count
           /\ last.filename # ""
           /\ \A i \in 0..(last.chunk_count - 1) :
                 /\ NsHas(ns, KeyIndex(<<"chunk_", i>>))
                 /\ NsGet(ns, i).chunk_index = i
                 /\ NsGet(ns, i).document_id = d
                 /\ NsGet(ns, i).filename = last.filename

\* An upload without a filename that stored more chunks than one listing
\* returns.
C16_Witness ==
    /\ last.op = "upload" /\ last.status = "success"
    /\ last.filename = "unknown"
    /\ last.chunk_count > StaleSearchLimit
    /\ NsCount(chunks[ChunkNamespace(last.doc_id)]) = last.chunk_count
    /\ last.doc_id \in DOMAIN docs

(***************************************************************************)
(* Reassembly of the chunks of a section.                                  *)
(***************************************************************************)
\* The length of the overlap of two consecutive chunks: the longest end of
\* the first, of at most chunk_overlap characters, that the second starts
\* with.
OverlapLen(a, b) ==
    LET ks == {k \in 0..ChunkOverlap :
                  /\ k <= Len(a) /\ k <= Len(b)
                  /\ SubSeq(a, Len(a) - k + 1, Len(a)) = SubSeq(b, 1, k)}
    IN CHOOSE k \in ks : \A j \in ks : j <= k

\* The chunk texts put together in order, the overlap of each chunk with
\* the chunk before it dropped.
RECURSIVE Reassemble(_)
Reassemble(texts) ==
    IF texts = <<>> THEN <<>>
    ELSE IF Len(texts) = 1 THEN texts[1]
    ELSE LET n == Len(texts)
             k == OverlapLen(texts[n - 1], texts[n])
         IN Reassemble(SubSeq(texts, 1, n - 1)) \o SubSeq(texts[n], k + 1, Len(texts[n]))

\* The chunk texts of the sections of a document, section by section.
RECURSIVE SectionTexts(_)
SectionTexts(sections) ==
    IF sections = <<>> THEN <<>>
    ELSE <<TextSplit(Head(sections).content)>> \o SectionTexts(Tail(sections))

\* C17: the chunks of a hierarchical split, taken section by section in
\* chunk_index order with the overlap of consecutive chunks dropped, give
\* back the content of each section with no text lost.
C17_RoundTrip ==
    (split_pc = "done" /\ hierarchical) =>
        LET sections == MarkdownHeaderSplit(markdown_content)
            texts == SectionTexts(sections)
        IN /\ [i \in 1..Len(chunks_data) |-> chunks_data[i].text] = Concat(texts)
           /\ \A j \in 1..Len(sections) : Reassemble(texts[j]) = sections[j].content

\* Every line of the text is blank or a heading line.
NoContentLine(text) ==
    \A i \in 1..Len(LinesOf(text)) :
        \/ Strip(LinesOf(text)[i]) = <<>>
        \/ HeaderLevelOf(Strip(LinesOf(text)[i])) > 0

\* C18: no chunk of either split mode has an empty text; a section without
\* content gives no chunk and takes no chunk_index value, and a document
\* without content gives the empty chunk list in both modes.
C18_NoEmptyChunk ==
    split_pc = "done" =>
        /\ \A i \in 1..Len(chunks_data) :
              /\ chunks_data[i].text # <<>>
              /\ Strip(chunks_data[i].text) = chunks_data[i].text
              /\ chunks_data[i].chunk_index = i - 1
        /\ markdown_content = <<>> => chunks_data = <<>>
        /\ (hierarchical /\ NoContentLine(markdown_content)) => chunks_data = <<>>
        /\ hierarchical =>
              Len(Dedup([i \in 1..Len(chunks_data) |-> LevelsOf(chunks_data[i])]))
                 <= Len(MarkdownHeaderSplit(markdown_content))

\* A heading with nothing under it, followed by a heading with content:
\* the only chunks are those of the second heading, numbered from 0.
C18_Witness ==
    /\ split_pc = "done"
    /\ hierarchical
    /\ LET lines == LinesOf(markdown_content)
       IN /\ Len(lines) = 3
          /\ HeaderLevelOf(Strip(lines[1])) = 1
          /\ HeaderLevelOf(Strip(lines[2])) = 1
          /\ Strip(SubSeq(lines[1], 2, Len(lines[1]))) = <<"a">>
          /\ Strip(SubSeq(lines[2], 2, Len(lines[2]))) = <<"b">>
    /\ Len(chunks_data) = 1
    /\ chunks_data[1].level1 = <<"b">>
    /\ chunks_data[1].chunk_index = 0

\* The empty document, split flat.
C18_WitnessEmpty ==
    split_pc = "done" /\ ~ hierarchical /\ markdown_content = <<>> /\ chunks_data = <<>>

\* The result of the search is a chunk of document_id.
ChunkOf(item, document_id) ==
    /\ item.namespace = <<"rag", "chunks", document_id>>
    /\ ResultDocumentId(item) = document_id

\* C19 as stated: a search whose filter has document_id = d queries only
\* d's chunk namespace and returns only chunks of d; without document_id
\* it queries the namespace of all chunks; the rest of the filter is what
\* the store gets (no filter when nothing is left); the store is unchanged.
C19_SearchScoped ==
    [][(last'.op = "search" /\ last' # last) =>
          LET f == last'.request_filter
          IN /\ docs' = docs /\ chunks' = chunks
             /\ last'.passed_filter.entries = [k \in DOMAIN f \ {"document_id"} |-> f[k]]
             /\ last'.passed_filter.none = (DOMAIN f \subseteq {"document_id"})
             /\ IF "document_id" \in DOMAIN f
                THEN /\ last'.namespace = <<"rag", "chunks", f["document_id"]>>
                     /\ \A item \in last'.results : ChunkOf(item, f["document_id"])
                ELSE last'.namespace = <<"rag", "chunks">>]_vars

\* C19 amended: the same for a document_id that is not empty; a filter
\* whose document_id is empty (falsy) is searched like a filter without
\* document_id, over the namespace of all chunks, its document_id entry
\* dropped.
C19_SearchScopedNonEmptyId ==
    [][(last'.op = "search" /\ last' # last) =>
          LET f == last'.request_filter
          IN /\ docs' = docs /\ chunks' = chunks
             /\ last'.passed_filter.entries = [k \in DOMAIN f \ {"document_id"} |-> f[k]]
             /\ last'.passed_filter.none = (DOMAIN f \subseteq {"document_id"})
             /\ \A item \in last'.results :
                   \A k \in DOMAIN last'.passed_filter.entries :
                       item.value[k] = f[k]
             /\ IF "document_id" \in DOMAIN f /\ f["document_id"] # <<>>
                THEN /\ last'.namespace = <<"rag", "chunks", f["document_id"]>>
                     /\ \A item \in last'.results : ChunkOf(item, f["document_id"])
                ELSE last'.namespace = <<"rag", "chunks">>]_vars

\* A search scoped to one document, with a further filter entry, that
\* returns chunks of it while another document has chunks the entry
\* matches too.
C19_Witness ==
    /\ last.op = "search"
    /\ DOMAIN last.request_filter = {"document_id", "filename"}
    /\ last.request_filter["document_id"] # <<>>
    /\ last.results # {}
    /\ \E e \in DocIds :
          /\ e # last.request_filter["document_id"]
          /\ \E j \in 1..Len(chunks[ChunkNamespace(e)]) :
                chunks[ChunkNamespace(e)][j].value.filename = last.request_filter["filename"]

\* A search with an empty document_id that returns chunks of a document.
C19_WitnessEmptyId ==
    /\ last.op = "search"
    /\ "document_id" \in DOMAIN last.request_filter
    /\ last.request_filter["document_id"] = <<>>
    /\ last.results # {}

\* C20: get_document on a document that was uploaded successfully and not
\* modified since (its namespace holds the chunk_count chunks of the
\* upload) returns every chunk once, in increasing chunk_index order, and
\* as many chunks as the chunk_count of the returned record, whatever the
\* size of the document.
C20_GetDocumentReturnsAllChunks ==
    (/\ last.op = "get" /\ last.status = "success"
     /\ last.doc_id \in DOMAIN docs
     /\ \E h \in BOOLEAN :
           HoldsExactly(chunks[ChunkNamespace(last.doc_id)],
                        docs[last.doc_id].chunk_count, last.doc_id[2], h))
    => /\ last.listing = chunks[ChunkNamespace(last.doc_id)]
       /\ NsCount(last.listing) = last.chunk_count

\* C21: in any sequence of uploads and deletes, a successful upload reports
\* "updated" exactly when a metadata record of its document id was in the
\* store when it checked, and "uploaded" otherwise, in particular on the
\* first upload after a delete of that id; and the chunk_count it returns
\* is the chunk_count of the metadata record it stored.
C21_ActionAndCount ==
    [][(/\ last'.op = "upload" /\ last'.status = "success"
        /\ (last' # last \/ docs' # docs \/ chunks' # chunks)) =>
          /\ last'.action \in {"updated", "uploaded"}
          /\ last'.action = "updated" <=> last'.doc_id \in DOMAIN docs
          /\ (last.op = "delete" /\ last.status = "success"
                /\ last.doc_id = last'.doc_id) => last'.action = "uploaded"
          /\ last'.doc_id \in DOMAIN docs'
          /\ last'.chunk_count = docs'[last'.doc_id].chunk_count]_vars

\* An upload that replaced a stored document and reported "updated".
C21_Witness ==
    /\ last.op = "upload" /\ last.status = "success" /\ last.action = "updated"
    /\ last.doc_id \in DOMAIN docs
    /\ docs[last.doc_id].chunk_count = last.chunk_count

\* A first upload, reported as "uploaded", of a document with chunks.
C21_WitnessUploaded ==
    /\ last.op = "upload" /\ last.status = "success" /\ last.action = "uploaded"
    /\ last.chunk_count > 0
    /\ docs[last.doc_id].chunk_count = last.chunk_count

\* Two workers hold the success responses of uploads of the same content
\* with the same number of chunks (as the same split mode gives), no
\* request has failed and no other worker has handled a request.
BothUploaded(v, w) ==
    /\ v # w
    /\ req[v].op = "upload" /\ req[v].pc = "done" /\ req[v].status = "success"
    /\ req[w].op = "upload" /\ req[w].pc = "done" /\ req[w].status = "success"
    /\ req[v].doc_id = req[w].doc_id
    /\ req[v].chunk_count = req[w].chunk_count
    /\ faults = 0
    /\ \A u \in Workers \ {v, w} : req[u].op = "idle"

C23_NoOrphanChunks ==
    (/\ faults = 0
     /\ tasks = {}
     /\ \A w \in Workers : ~ Busy(w))
    => \A d \in DocIds :
          chunks[ChunkNamespace(d)] # <<>> => d \in DOMAIN docs

\* C24: an upload that has returned to its caller, with success or with a
\* failure, writes nothing more: every chunk write that completes belongs
\* to an upload whose handler is still waiting in its gather.
C24_NoWriteAfterReturn ==
    [][\A t \in tasks :
          (t \notin tasks' /\ faults' = faults) =>
             /\ t.awaited
             /\ req[t.owner].op = "upload" /\ req[t.owner].pc = "gather"
             /\ req[t.owner].doc_id = t.doc_id]_vars

\* C25: from process start until close_store is called, however many
\* get_store calls run and however they overlap, at most one store
\* connection is opened, and every call that has returned holds that one
\* handle.
C25_SingleHandle ==
    (closed = {} /\ closing.pc = "idle") =>
        /\ Cardinality(opened) <= 1
        /\ \A c \in Callers :
              calls[c].pc = "done" => calls[c].got \in opened
        /\ \A c, d \in Callers :
              (calls[c].pc = "done" /\ calls[d].pc = "done") =>
                 calls[c].got = calls[d].got

====
